---- MODULE Spec2Model ----
(***************************************************************************)
(* Model of the Jito mempool listener (src/jito_mempool_listener.py):      *)
(* stream_mempool (the StreamDriver), its nested sol_price_refresher (the  *)
(* PriceOracle refresh task), fetch_sol_price and process_tx (the          *)
(* TradeInferenceEngine).                                                  *)
(*                                                                         *)
(* Time is counted in tenths of a second from the moment the driver loop   *)
(* is entered (line 176): the 0.2 s flush interval is 2, the 15 s refresh  *)
(* interval is 150 and the 1..3 s backoff is 10..30.                       *)
(* Floating-point quantities are exact rationals <<n, d>> in lowest terms  *)
(* with d > 0.  Python's Optional[X] is a sequence of length at most one:  *)
(* <<>> is None and <<x>> is a value.  Positions in sequences are 1-based. *)
(***************************************************************************)
EXTENDS Integers, Sequences, FiniteSets, TLC

\* ------------------------------------------------------------------ bounds
MaxTime == 4        \* the clock stops advancing here
MaxTxs == 3         \* transactions in one notification
MaxPackets == 3     \* transactions the feed delivers in one run
\* most entries in a token-balance list of a simulation result
MaxEntries == 2

\* ------------------------------------------------------- program constants
FlushInterval == 2          \* 0.2 s
RefreshInterval == 150      \* 15 s
BackoffCap == 600           \* 60 s
BackoffBase == 10           \* 1 s
BackoffSpread == 2          \* random.random() * 2
LamportsPerSol == 1000000000

WatchedMint == "mint_w"
OtherMint == "mint_o"
Malformed == -1     \* a raw amount string that int() cannot parse
AccountKeys == <<"payer", "owner1">>

\* --------------------------------------------------------------- rationals
Min(a, b) == IF a < b THEN a ELSE b
Max(a, b) == IF a > b THEN a ELSE b
Abs(n) == IF n < 0 THEN -n ELSE n

RECURSIVE GCD(_, _)
GCD(a, b) == IF b = 0 THEN a ELSE GCD(b, a % b)

Rat(n, d) ==
    LET g == GCD(Abs(n), Abs(d))
        s == IF d < 0 THEN -1 ELSE 1
    IN  IF n = 0 THEN <<0, 1>> ELSE <<(s * n) \div g, (s * d) \div g>>
Zero == <<0, 1>>
RAbs(q) == <<Abs(q[1]), q[2]>>
RMul(p, q) == Rat(p[1] * q[1], p[2] * q[2])
\* what a division by 0.0 comes to: Python raises ZeroDivisionError
ZeroDivisionError == <<1, 0>>
RDiv(p, q) == IF q[1] = 0 THEN ZeroDivisionError ELSE Rat(p[1] * q[2], p[2] * q[1])

RECURSIVE Pow10(_)
Pow10(k) == IF k = 0 THEN 1 ELSE 10 * Pow10(k - 1)

\* ------------------------------------------------------------ process_tx
\* 1-based position of the first occurrence of x in s, 0 when absent
\* (list.index raising ValueError).
RECURSIVE IndexFrom(_, _, _)
IndexFrom(s, x, i) ==
    IF i > Len(s) THEN 0
    ELSE IF s[i] = x THEN i ELSE IndexFrom(s, x, i + 1)
IndexOf(s, x) == IndexFrom(s, x, 1)

\* next((b for b in seq if test), None)
FirstOwnedBy(s, owner) ==
    LET Owned(b) == b.owner = owner
        m == SelectSeq(s, Owned)
    IN  IF m = <<>> THEN <<>> ELSE <<m[1]>>

\* lines 121-128 with a lookup that gives -1, the last key, for a missing owner
SolDeltaLastKey(val, keys, owner) ==
    LET found == IndexOf(keys, owner)
        owner_index == IF found = 0 THEN Len(keys) ELSE found
        zeros == [i \in 1..Len(keys) |-> 0]
        pre == IF val.pre_balances = <<>> THEN zeros ELSE val.pre_balances
        post == IF val.post_balances = <<>> THEN zeros ELSE val.post_balances
    IN  IF owner_index > Len(pre) \/ owner_index > Len(post)
        THEN Zero
        ELSE Rat(post[owner_index] - pre[owner_index], LamportsPerSol)

\* lines 121-128: the try block; every exception inside it gives 0.0
SolDelta(val, keys, owner) ==
    LET owner_index == IndexOf(keys, owner)
        zeros == [i \in 1..Len(keys) |-> 0]
        pre == IF val.pre_balances = <<>> THEN zeros ELSE val.pre_balances
        post == IF val.post_balances = <<>> THEN zeros ELSE val.post_balances
    IN  IF owner_index = 0 \/ owner_index > Len(pre) \/ owner_index > Len(post)
        THEN Zero
        ELSE Rat(post[owner_index] - pre[owner_index], LamportsPerSol)

\* line 106: the post-token-balance entries of the target mint
TbPost(val, target_mint) ==
    LET OfMint(b) == b.mint = target_mint
    IN  SelectSeq(val.post_token_balances, OfMint)

\* line 110 taking the last matching entry
TokenPostLast(tb_post) == tb_post[Len(tb_post)]

\* line 110: token_post = tb_post[0]
TokenPost(tb_post) == tb_post[1]

\* lines 111-114: token_pre, the first pre-token-balance entry of that owner
TokenPre(val, token_post) == FirstOwnedBy(val.pre_token_balances, token_post.owner)

\* line 118 before int(): the raw pre amount, 0 without a token_pre
RawPre(token_pre) == IF token_pre = <<>> THEN 0 ELSE token_pre[1].amount

\* lines 116-119, for amounts int() accepts
TokenDelta(token_post, token_pre) ==
    LET decimals == token_post.decimals
        post_amt == token_post.amount
        pre_amt == RawPre(token_pre)
    IN  Rat(post_amt - pre_amt, IF decimals # 0 THEN Pow10(decimals) ELSE 1)

\* line 134 dividing whatever token_delta is
PriceInSolUnguarded(sol_delta, token_delta) ==
    RDiv(RAbs(sol_delta), RAbs(token_delta))

\* line 134
PriceInSol(sol_delta, token_delta) ==
    IF token_delta # Zero THEN RDiv(RAbs(sol_delta), RAbs(token_delta)) ELSE Zero

\* The body of process_tx after the simulation has returned `sim`.
\* Result: [raised |-> an exception left process_tx, row |-> Optional[TxRow]].
process_tx(tx, sim, target_mint, sol_price, now) ==
    LET NoRow == [raised |-> FALSE, row |-> <<>>]
        Raised == [raised |-> TRUE, row |-> <<>>]
    IN
    IF sim.raises THEN Raised
    ELSE IF sim.value = <<>> THEN NoRow
    ELSE
    LET val == sim.value[1]
        tb_post == TbPost(val, target_mint)
    IN
    IF tb_post = <<>> THEN NoRow
    ELSE
    LET token_post == TokenPost(tb_post)
        token_pre == TokenPre(val, token_post)
    IN
    IF token_post.amount = Malformed \/ RawPre(token_pre) = Malformed THEN Raised
    ELSE
    LET token_delta == TokenDelta(token_post, token_pre)
        sol_delta == SolDelta(val, tx.keys, token_post.owner)
    IN
    IF token_delta = Zero /\ sol_delta = Zero THEN NoRow
    ELSE
    LET side == IF token_delta[1] > 0 THEN "Buy" ELSE "Sell"
        price_in_sol == PriceInSol(sol_delta, token_delta)
    IN
    IF price_in_sol = ZeroDivisionError THEN Raised
    ELSE
    LET price_in_usd == RMul(price_in_sol, <<sol_price, 1>>)
    IN  [raised |-> FALSE,
         row |-> << [time |-> now \div 10, side |-> side, sol |-> RAbs(sol_delta),
                     token |-> RAbs(token_delta), price_sol |-> price_in_sol,
                     price_usd |-> price_in_usd, sig |-> tx.sig] >>]

\* ------------------------------------------------------- fetch_sol_price
\* What the HTTP request can do: raise (timeout, connection, bad JSON),
\* answer without a "price" key, or answer with a price (in whole dollars).
Prices == {1, 2}
FetchOutcomes ==
    {[kind |-> "error", price |-> 0], [kind |-> "nokey", price |-> 0]}
    \cup {[kind |-> "price", price |-> p] : p \in Prices}

fetch_sol_price(o) == IF o.kind = "price" THEN o.price ELSE 0

\* the refresher without its `if p > 0` guard
RefreshedUnguarded(p, held) == p

\* lines 168-169 of sol_price_refresher: the new holder value
Refreshed(p, held) == IF p > 0 THEN p ELSE held

\* line 191 without the test of `rows`
ShouldFlushEmptyToo(rs, now, last) == (now - last) >= FlushInterval

\* ---------------------------------------------------------- stream_mempool
\* line 191 without the interval test
ShouldFlushAnyTime(rs, now, last) == rs # <<>>

\* line 191
ShouldFlush(rs, now, last) == rs # <<>> /\ (now - last) >= FlushInterval

\* lines 187-188 appending the row twice
AppendedTwice(rs, row) == IF row # <<>> THEN rs \o row \o row ELSE rs

\* lines 187-188
Appended(rs, row) == IF row # <<>> THEN Append(rs, row[1]) ELSE rs

\* line 212 left out
NotCleared(rs) == rs

\* line 212: rows.clear()
Cleared(rs) == <<>>

\* lines 190-213 moved into the packet loop, after line 188
FlushAfterEachPacket(nf, d) == d > 0 \/ d = Len(nf)

\* lines 184-190: the flush test comes after the loop over the packets of the
\* notification, when all d = len(nf) of them are done
FlushDue(nf, d) == d = Len(nf)

\* a batch created anew each time round `while True`
LoopAgainEmptied(rs) == <<>>

\* lines 175-178: rows is created before `while True`; going round the loop
\* leaves the batch as it is
LoopAgain(rs) == rs

\* a handler that lets stream errors through
CaughtUnlessStream(e) == IF e = "stream" THEN "exited" ELSE "backoff"

\* lines 214-217: where the driver is after `except Exception` caught e
CaughtNext(e) == "backoff"

\* random.random() in tenths
RandomTenths == {0, 9}

\* line 216 with a delay ten times as long
BackoffTenfold(r) == Min(BackoffCap, 10 * (BackoffBase + r * BackoffSpread))

\* line 216: min(60, 1 + random.random() * 2)
Backoff(r) == Min(BackoffCap, BackoffBase + r * BackoffSpread)

\* line 185: VersionedTransaction.from_bytes(packet.data), for decodable data
from_bytes(packet) == [keys |-> AccountKeys, sig |-> packet.id]

\* notification.transactions: n packets, numbered from `first` in the order
\* the feed delivers them; a packet's bytes are looked at only when line 185
\* decodes them
PacketsOf(first, n) == [i \in 1..n |-> [id |-> first + i - 1]]

\* all simulations of the notification started at once
IssuedAll(rem) == {rem[i].id : i \in 1..Len(rem)}

\* lines 184-186: the simulations started when the driver takes up the
\* remaining packets `rem` of a notification: only the first one's.
Issued(rem) == {Head(rem).id}

\* --------------------------------------- what rpc.simulate_transaction does
Entry(owner, mint, amount, decimals) ==
    [owner |-> owner, mint |-> mint, amount |-> amount, decimals |-> decimals]

SnapOther ==
    [pre_token_balances |-> <<>>,
     post_token_balances |-> <<Entry("owner1", OtherMint, 5, 0)>>,
     pre_balances |-> <<7, 7>>, post_balances |-> <<7, 7>>]
SnapBuy ==
    [pre_token_balances |-> <<>>,
     post_token_balances |-> <<Entry("owner1", WatchedMint, 2, 0)>>,
     pre_balances |-> <<0, 2000000000>>, post_balances |-> <<0, 1000000000>>]
SnapBad ==
    [pre_token_balances |-> <<>>,
     post_token_balances |-> <<Entry("owner1", WatchedMint, Malformed, 0)>>,
     pre_balances |-> <<7, 7>>, post_balances |-> <<7, 7>>]

Sims ==
    {[raises |-> TRUE, value |-> <<>>], [raises |-> FALSE, value |-> <<>>]}
    \cup {[raises |-> FALSE, value |-> <<s>>] : s \in {SnapOther, SnapBuy, SnapBad}}

\* packet.data: bytes that VersionedTransaction.from_bytes decodes or rejects
PacketData == {"valid", "garbage"}

\* ---- simulation results for process_tx taken on its own
\* every sequence over S of at most n elements
SeqsUpTo(S, n) == UNION {[1..k -> S] : k \in 0..n}

\* val.post_token_balances entries: two owners, both mints, a delta with
\* decimals, an amount int() rejects
PostEntries ==
    {Entry("owner1", WatchedMint, 20, 1), Entry("owner1", WatchedMint, 10, 0),
     Entry("owner2", WatchedMint, 30, 0), Entry("owner1", OtherMint, 5, 0),
     Entry("owner1", WatchedMint, Malformed, 0)}

\* val.pre_token_balances entries
PreEntries ==
    {Entry("owner1", WatchedMint, 10, 0), Entry("owner1", WatchedMint, 40, 0),
     Entry("owner1", OtherMint, 5, 0), Entry("owner2", WatchedMint, 30, 0),
     Entry("owner1", WatchedMint, Malformed, 0)}

\* val.pre_balances and val.post_balances: missing, unchanged, the owner
\* spends one SOL, and arrays that stop before the owner's index
BalancePairs ==
    {[pre |-> <<>>, post |-> <<>>],
     [pre |-> <<7, 7>>, post |-> <<7, 7>>],
     [pre |-> <<0, 2 * LamportsPerSol>>, post |-> <<0, LamportsPerSol>>],
     [pre |-> <<7>>, post |-> <<7>>]}

Snapshots ==
    {[pre_token_balances |-> pre, post_token_balances |-> post,
      pre_balances |-> bal.pre, post_balances |-> bal.post] :
        pre \in SeqsUpTo(PreEntries, MaxEntries),
        post \in SeqsUpTo(PostEntries, MaxEntries),
        bal \in BalancePairs}

\* what rpc.simulate_transaction can hand to process_tx
SimResults ==
    {[raises |-> TRUE, value |-> <<>>], [raises |-> FALSE, value |-> <<>>]}
    \cup {[raises |-> FALSE, value |-> <<s>>] : s \in Snapshots}

\* tx.message.account_keys: with and without the owner's key
KeyLists == {AccountKeys, <<"payer">>}

\* ------------------------------------------------------------------- state
VARIABLES
    pc,                 \* where stream_mempool is suspended
    err,                \* kind of the exception caught at line 214
    delay,              \* argument of the backoff sleep
    wakeAt,             \* when that sleep is over (the clock stops at MaxTime)
    clock,              \* time.time()
    sol_price_holder,   \* sol_price_holder["p"]
    refPc,              \* where sol_price_refresher is suspended
    p,                  \* its local p: what its last fetch returned
    refWakeAt,          \* when its sleep is over
    rows,               \* the pending batch
    last_flush,
    notification,       \* notification.transactions of the latest notification
    done,               \* how many of its packets the inner loop has finished
    sol_price,          \* process_tx's sol_price argument (0 outside a call)
    inflight,           \* simulate_transaction calls not yet returned
    sink,               \* tables printed: when, and the batch
    nextTx,             \* number of the next packet the feed delivers
    lastGood,           \* history: price of the last fetch that succeeded, 0 if none
    inferred,           \* history: every row process_tx returned, in order
    args,               \* the arguments of a process_tx call taken on its own
    ret                 \* Optional: what that call came to

vars == <<pc, err, delay, wakeAt, clock, sol_price_holder, refPc, p,
          refWakeAt, rows, last_flush, notification, done, sol_price,
          inflight, sink, nextTx, lastGood, inferred, args, ret>>

driverVars == <<pc, err, delay, wakeAt, rows, last_flush, notification, done,
                sol_price, inflight, sink, nextTx, inferred>>
oracleVars == <<sol_price_holder, refPc, p, refWakeAt, lastGood>>
callVars == <<args, ret>>

StreamInit ==
    /\ pc = "init_fetch"
    /\ err = "none"
    /\ delay = 0
    /\ wakeAt = 0
    /\ clock = 0
    /\ sol_price_holder = 0
    /\ refPc = "unborn"
    /\ p = 0
    /\ refWakeAt = 0
    /\ rows = <<>>
    /\ last_flush = 0
    /\ notification = <<>>
    /\ done = 0
    /\ sol_price = 0
    /\ inflight = {}
    /\ sink = <<>>
    /\ nextTx = 1
    /\ lastGood = 0
    /\ inferred = <<>>

Init ==
    /\ StreamInit
    /\ args = <<>>
    /\ ret = <<>>

Tick ==
    /\ UNCHANGED callVars
    /\ pc # "init_fetch"
    /\ clock < MaxTime
    /\ clock' = clock + 1
    /\ UNCHANGED <<driverVars, oracleVars>>

\* the clock when a sleep that ends at `t` returns
Woken(t) == Max(clock, t)

\* lines 162-178: the first fetch returns, the refresher task is created and
\* the driver enters its loop and starts connecting
InitialFetch ==
    /\ UNCHANGED callVars
    /\ pc = "init_fetch"
    /\ \E o \in FetchOutcomes :
        /\ sol_price_holder' = fetch_sol_price(o)
        /\ lastGood' = IF o.kind = "price" THEN o.price ELSE lastGood
    /\ refPc' = "fetching"
    /\ last_flush' = clock
    /\ pc' = "connect"
    /\ UNCHANGED <<err, delay, wakeAt, clock, p, refWakeAt, rows, notification,
                   done, sol_price, inflight, sink, nextTx, inferred>>

\* lines 165-170: one fetch of the refresher returns
RefreshFetchDone ==
    /\ UNCHANGED callVars
    /\ refPc = "fetching"
    /\ \E o \in FetchOutcomes :
        /\ p' = fetch_sol_price(o)
        /\ sol_price_holder' = Refreshed(fetch_sol_price(o), sol_price_holder)
        /\ lastGood' = IF o.kind = "price" THEN o.price ELSE lastGood
    /\ refPc' = "sleeping"
    /\ refWakeAt' = Min(MaxTime, clock + RefreshInterval)
    /\ UNCHANGED <<clock, driverVars>>

\* line 170 returns
RefreshWake ==
    /\ UNCHANGED callVars
    /\ refPc = "sleeping"
    /\ clock' = Woken(refWakeAt)
    /\ refPc' = "fetching"
    /\ UNCHANGED <<driverVars, sol_price_holder, p, refWakeAt, lastGood>>

\* lines 214-216: exception e reaches the handler, which starts the sleep
Caught(e) ==
    /\ pc' = CaughtNext(e)
    /\ err' = e
    /\ \E r \in RandomTenths :
        /\ delay' = Backoff(r)
        /\ wakeAt' = Min(MaxTime, clock + Backoff(r))

\* lines 190-213, reached with pending batch rs
FlushCheck(rs) ==
    IF ShouldFlush(rs, clock, last_flush)
    THEN /\ sink' = Append(sink, [time |-> clock, batch |-> rs])
         /\ rows' = Cleared(rs)
         /\ last_flush' = clock
    ELSE /\ rows' = rs
         /\ UNCHANGED <<sink, last_flush>>

\* lines 184-213: the driver goes on with notification nf, of which d packets
\* are finished, having batch rs and outstanding simulations fl, until it is
\* suspended again
Continue(nf, d, rs, fl) ==
    /\ notification' = nf
    /\ done' = d
    /\ IF FlushDue(nf, d)
       THEN FlushCheck(rs)
       ELSE /\ rows' = rs
            /\ UNCHANGED <<sink, last_flush>>
    /\ IF d = Len(nf)
       THEN /\ pc' = "next_notif"
            /\ inflight' = fl
            /\ sol_price' = 0
            /\ UNCHANGED <<err, delay, wakeAt>>
       ELSE \E data \in PacketData :
            IF data = "garbage"
            THEN /\ Caught("decode")
                 /\ inflight' = fl
                 /\ sol_price' = 0
            ELSE /\ pc' = "simulate"
                 /\ sol_price' = sol_price_holder
                 /\ inflight' = fl \cup Issued(SubSeq(nf, d + 1, Len(nf)))
                 /\ UNCHANGED <<err, delay, wakeAt>>

\* line 181
ConnectOk ==
    /\ UNCHANGED callVars
    /\ pc = "connect"
    /\ pc' = "next_notif"
    /\ UNCHANGED <<err, delay, wakeAt, clock, rows, last_flush, notification,
                   done, sol_price, inflight, sink, nextTx, inferred, oracleVars>>

ConnectFail ==
    /\ UNCHANGED callVars
    /\ pc = "connect"
    /\ Caught("connect")
    /\ UNCHANGED <<clock, rows, last_flush, notification, done, sol_price,
                   inflight, sink, nextTx, inferred, oracleVars>>

\* line 183: the stream yields a notification
RecvNotification ==
    /\ UNCHANGED callVars
    /\ pc = "next_notif"
    /\ \E n \in 0..Min(MaxTxs, MaxPackets - (nextTx - 1)) :
        /\ nextTx' = nextTx + n
        /\ Continue(PacketsOf(nextTx, n), 0, rows, inflight)
    /\ UNCHANGED <<clock, inferred, oracleVars>>

\* line 183: the stream raises
StreamError ==
    /\ UNCHANGED callVars
    /\ pc = "next_notif"
    /\ Caught("stream")
    /\ UNCHANGED <<clock, rows, last_flush, notification, done, sol_price,
                   inflight, sink, nextTx, inferred, oracleVars>>

\* line 183: the stream ends; `while True` goes round
StreamEnd ==
    /\ UNCHANGED callVars
    /\ pc = "next_notif"
    /\ pc' = "connect"
    /\ rows' = LoopAgain(rows)
    /\ UNCHANGED <<err, delay, wakeAt, clock, last_flush, notification,
                   done, sol_price, inflight, sink, nextTx, inferred, oracleVars>>

\* line 101 returns or raises; process_tx runs to its end and the driver goes
\* on to the next packet or to the flush check
SimulateReturn ==
    /\ UNCHANGED callVars
    /\ pc = "simulate"
    /\ \E sim \in Sims :
        LET tx == from_bytes(notification[done + 1])
            out == process_tx(tx, sim, WatchedMint, sol_price, clock)
            fl == inflight \ {tx.sig}
        IN  IF out.raised
            THEN /\ Caught(IF sim.raises THEN "simulate" ELSE "infer")
                 /\ inflight' = fl
                 /\ sol_price' = 0
                 /\ UNCHANGED <<rows, last_flush, notification, done, sink,
                                inferred>>
            ELSE /\ inferred' = inferred \o out.row
                 /\ Continue(notification, done + 1, Appended(rows, out.row), fl)
    /\ UNCHANGED <<clock, nextTx, oracleVars>>

\* line 216 returns
BackoffWake ==
    /\ UNCHANGED callVars
    /\ pc = "backoff"
    /\ clock' = Woken(wakeAt)
    /\ pc' = "connect"
    /\ err' = "none"
    /\ delay' = 0
    /\ rows' = LoopAgain(rows)
    /\ UNCHANGED <<wakeAt, last_flush, notification, done, sol_price,
                   inflight, sink, nextTx, inferred, oracleVars>>

Next ==
    \/ Tick
    \/ InitialFetch
    \/ RefreshFetchDone
    \/ RefreshWake
    \/ ConnectOk
    \/ ConnectFail
    \/ RecvNotification
    \/ StreamError
    \/ StreamEnd
    \/ SimulateReturn
    \/ BackoffWake

Spec == Init /\ [][Next]_vars

TypeOK ==
    /\ pc \in {"init_fetch", "connect", "next_notif", "simulate", "backoff", "exited"}
    /\ clock \in 0..MaxTime
    /\ sol_price_holder \in {0} \cup Prices
    /\ done \in 0..Len(notification)

\* What the asyncio event loop guarantees: a sleep returns once its delay
\* has passed.  Nothing obliges the feed to deliver, fail or end, nor a
\* remote call to answer.
FairSpec ==
    /\ Spec
    /\ WF_vars(BackoffWake)
    /\ WF_vars(RefreshWake)

\* ---- process_tx taken on its own: one call on each bounded input
InferInit ==
    /\ StreamInit
    /\ args \in [tx : {[sig |-> 1, keys |-> k] : k \in KeyLists},
                 sim : SimResults,
                 sol_price : Prices]
    /\ ret = <<>>

\* lines 101-145: the call runs to its end
Call ==
    /\ ret = <<>>
    /\ ret' = <<process_tx(args.tx, args.sim, WatchedMint, args.sol_price, clock)>>
    /\ UNCHANGED <<args, clock, driverVars, oracleVars>>

InferNext == Call

InferSpec == InferInit /\ [][InferNext]_vars

\* ------------------------------------------------------------- properties
TxErrors == {"decode", "simulate", "infer"}
Last(s) == s[Len(s)]

RECURSIVE Concat(_)
Concat(ss) == IF ss = <<>> THEN <<>> ELSE Head(ss) \o Concat(Tail(ss))
\* every row printed so far, in print order
Printed == Concat([i \in 1..Len(sink) |-> sink[i].batch])

IsPrefix(s, t) == Len(s) <= Len(t) /\ s = SubSeq(t, 1, Len(s))
NoRepeat(s) == \A i, j \in 1..Len(s) : s[i].sig = s[j].sig => i = j

\* the rows of `s` that come from the packets of notification nf
OfNotif(s, nf) ==
    LET Mine(r) == \E i \in 1..Len(nf) : nf[i].id = r.sig
    IN  SelectSeq(s, Mine)

\* C1: a failure in one transaction (undecodable bytes, simulation raising,
\* malformed amount) never fails the stream: the driver is never in its
\* transport-failure handler because of a transaction-level error.
C1_TxFailureKeepsStream == ~(pc = "backoff" /\ err \in TxErrors)

\* C2: every resubscription after the first connection is preceded by a
\* backoff wait: the driver starts connecting only from startup or from the
\* end of a backoff sleep.
C2_ResubscribeOnlyAfterBackoff ==
    [][(pc' = "connect" /\ pc # "connect") => pc \in {"init_fetch", "backoff"}]_vars

\* C3: a non-empty batch is flushed while the subscription is idle: if the
\* driver waits for the next notification with a non-empty batch, the batch
\* is flushed unless the feed delivers, fails or ends first.
C3_IdleBatchFlushed ==
    (pc = "next_notif" /\ rows # <<>>) ~> (rows = <<>> \/ pc # "next_notif")

\* C4: the batch emitted after a notification holds exactly one trade per
\* transaction of that notification whose inference is not absent, in the
\* order received and after every trade held over from earlier, and nothing
\* for the transactions that inferred to absent.  (A flush is a step that
\* prints; it ends the notification the driver was processing, or follows
\* at once an empty notification.)
C4_BatchHoldsNotificationTrades ==
    [][Len(sink') > Len(sink) =>
        LET nf == IF pc = "simulate" THEN notification ELSE <<>>
            batch == Last(sink').batch
            mine == OfNotif(inferred', nf)
            held == Len(batch) - Len(mine)
        IN  /\ held >= 0
            /\ SubSeq(batch, held + 1, Len(batch)) = mine
            /\ OfNotif(batch, nf) = mine
            /\ Len(mine) <= Len(nf)
            /\ \A j \in 1..held : nf # <<>> => batch[j].sig < nf[1].id]_vars
C4_Witness ==
    /\ pc = "next_notif"
    /\ Len(notification) = 3
    /\ done = 3
    /\ sink # <<>>
    /\ Len(Last(sink).batch) = 1
    /\ Last(sink).batch[1].sig = notification[2].id
    /\ OfNotif(inferred, notification) = Last(sink).batch

\* C5: the display price of a trade is computed from the most recently
\* completed successful fetch at the moment the trade is constructed.
C5_TradeUsesLatestPrice ==
    [][Len(inferred') > Len(inferred)
        => Last(inferred').price_usd = RMul(Last(inferred').price_sol, <<lastGood, 1>>)]_vars

\* C6: the cached price always equals the last successfully fetched value,
\* whatever number of fetches failed since, and is 0 only if none succeeded.
C6_PriceIsLastGood == sol_price_holder = lastGood
C6_Witness ==
    /\ lastGood = 2
    /\ refPc = "sleeping"
    /\ p = 0
    /\ sol_price_holder = 2
    /\ pc = "simulate"

\* C7: two consecutive flushes are at least FlushInterval apart and the
\* first one is at least FlushInterval after the driver loop was entered
\* (time 0).
C7_FlushesRateLimited ==
    \A i \in 1..Len(sink) :
        sink[i].time - (IF i = 1 THEN 0 ELSE sink[i - 1].time) >= FlushInterval
C7_Witness ==
    /\ Len(sink) >= 2
    /\ sink[2].time - sink[1].time = FlushInterval
    /\ sink[1].time = FlushInterval

\* C8: the rows printed so far are a prefix of the non-absent inference
\* results in receipt order, no row is printed twice, and what is not yet
\* printed is exactly the pending batch.
C8_PrintedInReceiptOrder ==
    /\ IsPrefix(Printed, inferred)
    /\ NoRepeat(Printed)
    /\ Printed \o rows = inferred
C8_Witness ==
    /\ Len(sink) >= 2
    /\ Len(sink[1].batch) >= 2
    /\ sink[2].batch # <<>>

\* C9: the subscribe loop is never left, and after every caught failure the
\* driver starts connecting again.
C9_DriverNeverStops ==
    /\ [](pc # "exited")
    /\ (pc = "backoff") ~> (pc = "connect")
C9_Witness == pc = "connect" /\ wakeAt > 0 /\ err = "none"

\* C10: at most one simulation call is outstanding, and none unless the
\* driver is awaiting it.
C10_OneSimulationAtATime ==
    /\ Cardinality(inflight) <= 1
    /\ (pc # "simulate" => inflight = {})
    /\ (pc = "simulate" => inflight = {notification[done + 1].id})
C10_Witness ==
    /\ pc = "simulate"
    /\ done = 1
    /\ Len(notification) = 3
    /\ inflight = {notification[2].id}
    /\ OfNotif(inferred, notification) # <<>>

\* ---- process_tx taken on its own (InferSpec)
\* the call has run to its end
Returned == ret # <<>>
\* it returned a row / returned None / raised
Row == ret[1].row[1]
GaveRow == Returned /\ ~ret[1].raised /\ ret[1].row # <<>>
GaveNone == Returned /\ ~ret[1].raised /\ ret[1].row = <<>>
GaveRaise == Returned /\ ret[1].raised

\* the snapshot of the call, and whether there is one with an entry of the
\* watched mint among its post token balances
HasSnapshot == ~args.sim.raises /\ args.sim.value # <<>>
CallVal == args.sim.value[1]
HasSubject == HasSnapshot /\ TbPost(CallVal, WatchedMint) # <<>>
\* the first such entry
Subject == TbPost(CallVal, WatchedMint)[1]
\* the raw amount of the first pre entry of that owner and the watched mint
OwnerMintPre ==
    LET Same(b) == b.owner = Subject.owner /\ b.mint = WatchedMint
        m == SelectSeq(CallVal.pre_token_balances, Same)
    IN  IF m = <<>> THEN 0 ELSE m[1].amount
Scale(e) == IF e.decimals # 0 THEN Pow10(e.decimals) ELSE 1

\* C11: the token amount of every returned row is the subject's post amount
\* less the amount of the pre entry with the subject's owner and the watched
\* mint (0 without one), scaled; an entry of that owner for another mint is
\* not used.
C11_PreAmountByOwnerAndMint ==
    (GaveRow /\ OwnerMintPre # Malformed)
        => Row.token = RAbs(Rat(Subject.amount - OwnerMintPre, Scale(Subject)))

\* the owner's key is in the account list, and a balance array of the
\* snapshot stops before its index
OwnerIndex == IndexOf(args.tx.keys, Subject.owner)
ShortBalances ==
    /\ HasSubject
    /\ OwnerIndex # 0
    /\ \/ CallVal.pre_balances # <<>> /\ Len(CallVal.pre_balances) < OwnerIndex
       \/ CallVal.post_balances # <<>> /\ Len(CallVal.post_balances) < OwnerIndex

\* C12: a call whose snapshot has balance arrays shorter than the owner's
\* index returns None and no row (calls that raise are left aside).
C12_ShortBalancesGiveNone ==
    (Returned /\ ShortBalances /\ ~GaveRaise) => GaveNone

\* the deltas as lines 116-128 compute them
CallTokenDelta == TokenDelta(Subject, TokenPre(CallVal, Subject))
CallSolDelta == SolDelta(CallVal, args.tx.keys, Subject.owner)
BothZero == CallTokenDelta = Zero /\ CallSolDelta = Zero

\* C13: once the simulation has answered, the call returns None when there is
\* no snapshot, when no post entry has the watched mint, and when both deltas
\* are zero; in every other case it returns a row.
C13_NoneInThreeCasesElseRow ==
    (Returned /\ ~args.sim.raises) =>
        IF ~HasSnapshot \/ ~HasSubject \/ BothZero THEN GaveNone ELSE GaveRow

\* int() accepts the amounts lines 117-118 read
AmountsParse ==
    Subject.amount # Malformed /\ RawPre(TokenPre(CallVal, Subject)) # Malformed

\* C14: with a token delta of 0 and a SOL delta other than 0 the call returns
\* a row whose price in SOL and price in USD are 0; and no call ends in a
\* division by zero: a call raises only when the simulation raised or an
\* amount does not parse.
C14_ZeroTokenDeltaPricedZero ==
    /\ (Returned /\ HasSubject /\ AmountsParse
            /\ CallTokenDelta = Zero /\ CallSolDelta # Zero)
        => (GaveRow /\ Row.price_sol = Zero /\ Row.price_usd = Zero)
    /\ GaveRaise => (args.sim.raises \/ (HasSubject /\ ~AmountsParse))

C14_Witness ==
    /\ GaveRow
    /\ CallTokenDelta = Zero
    /\ CallSolDelta = <<-1, 1>>
    /\ Row.side = "Sell"
    /\ Row.sol = <<1, 1>>
    /\ Row.price_usd = Zero

\* C15: when the subject's owner is not among the account keys, a call with a
\* token delta other than 0 returns a row with sol 0 and price in SOL 0, a
\* Sell when the delta is negative, and a call with a token delta of 0
\* returns None.
C15_MissingOwnerMeansNoSol ==
    (Returned /\ HasSubject /\ AmountsParse /\ OwnerIndex = 0) =>
        IF CallTokenDelta = Zero
        THEN GaveNone
        ELSE /\ GaveRow
             /\ Row.sol = Zero
             /\ Row.price_sol = Zero
             /\ CallTokenDelta[1] < 0 => Row.side = "Sell"

C15_Witness ==
    /\ GaveRow
    /\ OwnerIndex = 0
    /\ CallVal.pre_balances = <<0, 2 * LamportsPerSol>>
    /\ CallTokenDelta = <<-2, 1>>
    /\ Row.side = "Sell"
    /\ Row.token = <<2, 1>>
    /\ Row.sol = Zero

\* C16: every returned row is a Buy exactly when the token delta is positive
\* and a Sell otherwise, its sol and token fields are the absolute values of
\* the two deltas and not negative, and the deltas are those of the first
\* post entry of the watched mint, however many there are.
C16_SideAndMagnitudes ==
    GaveRow =>
        /\ Row.side = (IF CallTokenDelta[1] > 0 THEN "Buy" ELSE "Sell")
        /\ Row.token = RAbs(CallTokenDelta)
        /\ Row.sol = RAbs(CallSolDelta)
        /\ Row.token[1] >= 0 /\ Row.token[2] > 0
        /\ Row.sol[1] >= 0 /\ Row.sol[2] > 0

C16_Witness ==
    /\ GaveRow
    /\ Len(TbPost(CallVal, WatchedMint)) = 2
    /\ TbPost(CallVal, WatchedMint)[2].owner # Subject.owner
    /\ CallTokenDelta = Zero
    /\ CallSolDelta[1] < 0
    /\ Row.side = "Sell"
    /\ Row.sol = <<1, 1>>

\* ---- the driver again (Spec)
\* C17: whenever the driver sleeps before reconnecting, the delay is between
\* 1 s and 3 s, hence under the cap of 60 s, whatever failed before.
C17_BackoffBetweenOneAndThree ==
    pc = "backoff" =>
        /\ delay >= BackoffBase
        /\ delay <= BackoffBase + 10 * BackoffSpread
        /\ delay <= BackoffCap

\* a second failure in a row, the connection failing right after the backoff
\* that followed an abandoned notification, with the shortest delay
C17_Witness ==
    /\ pc = "backoff"
    /\ err = "connect"
    /\ done < Len(notification)
    /\ delay = BackoffBase

\* a step of the driver in which the connection or the stream fails, the
\* stream ends, the backoff sleep returns, or the driver connects again
TransportStep ==
    \/ pc # "backoff" /\ pc' = "backoff" /\ err' \in {"connect", "stream"}
    \/ pc = "next_notif" /\ pc' = "connect"
    \/ pc = "backoff" /\ pc' = "connect"
    \/ pc = "connect" /\ pc' = "next_notif"

\* C18: a transport failure and the reconnect that follows change neither the
\* pending batch nor the last-flush time nor the cached price; and every
\* batch printed starts with the rows that were pending, so rows held over a
\* reconnect come out ahead of the rows inferred after it.
C18_ReconnectKeepsBatch ==
    [][/\ TransportStep =>
            /\ rows' = rows
            /\ last_flush' = last_flush
            /\ sol_price_holder' = sol_price_holder
            /\ sink' = sink
       /\ sink' # sink => IsPrefix(rows, Last(sink').batch)]_vars

\* the stream has failed while rows inferred since the last flush are pending
C18_Witness ==
    /\ pc = "backoff"
    /\ err = "stream"
    /\ rows # <<>>
    /\ sink # <<>>
    /\ last_flush = Last(sink).time
    /\ last_flush > 0
    /\ sol_price_holder = 2

\* C19: a table is printed only in a step that ends a notification, all of
\* its packets done; while a notification is being worked on none of its rows
\* has been printed; and a print leaves no inferred row unprinted, so the
\* rows of one notification always come out in one batch.
C19_FlushOnlyBetweenNotifications ==
    [][/\ pc = "simulate" => OfNotif(Printed, notification) = <<>>
       /\ sink' # sink =>
            /\ pc' = "next_notif"
            /\ done' = Len(notification')
            /\ OfNotif(Printed, notification') = <<>>
            /\ OfNotif(Last(sink').batch, notification')
                    = OfNotif(inferred', notification')
            /\ Printed \o Last(sink').batch = inferred']_vars

\* a batch with two rows of the notification that has just ended
C19_Witness ==
    /\ pc = "next_notif"
    /\ sink # <<>>
    /\ rows = <<>>
    /\ done = Len(notification)
    /\ Len(OfNotif(Last(sink).batch, notification)) >= 2

\* C20: no batch handed to the sink is empty, and right after a table is
\* printed the pending batch is empty and last_flush is the time of that
\* print.
C20_FlushEmptiesBatch ==
    [][sink' # sink =>
            /\ \A i \in 1..Len(sink') : sink'[i].batch # <<>>
            /\ rows' = <<>>
            /\ last_flush' = Last(sink').time
            /\ last_flush' = clock']_vars

\* right after the second print
C20_Witness ==
    /\ Len(sink) = 2
    /\ sink[2].batch # <<>>
    /\ sink[2].time > sink[1].time
    /\ rows = <<>>
    /\ last_flush = sink[2].time
    /\ last_flush = clock
    /\ pc = "next_notif"

====
